---- MODULE Spec2Model ----
(***************************************************************************)
(* Model of the cultural dynamics simulation engine of src/model.py        *)
(* (CulturalDynamicsModel, Agent, Institution).                            *)
(*                                                                         *)
(* Number representation.  The engine computes with floats; the model      *)
(* computes with integers in fixed units:                                  *)
(*   - hours, money, rates per hour: whole numbers;                        *)
(*   - agent values in [0,1]: multiples of 1/ValueScale;                   *)
(*   - benefit rates: hundredths (BenefitScale);                           *)
(*   - hours ** (1/dim_factor): ten-thousandths (PowScale), tabulated;     *)
(*   - utilities: units of 1/(BenefitScale*ValueScale*PowScale);           *)
(*   - edge weights: half hours (two times the engine's weight);           *)
(*   - history averages and rates: a fraction [num, den].                  *)
(***************************************************************************)
EXTENDS Integers, Sequences, FiniteSets, TLC

(***************************************************************************)
(* Bounds of the model.                                                    *)
(***************************************************************************)
MaxAgents == 2
MaxSteps == 3

(***************************************************************************)
(* Fixed-point scales.                                                     *)
(***************************************************************************)
ValueScale == 2
BenefitScale == 100
PowScale == 10000

(***************************************************************************)
(* Program constants.                                                      *)
(***************************************************************************)
TimeBudget == 168
InitialTimestepsSinceChange == 100
Infeasible == -999 * BenefitScale * ValueScale * PowScale
\* 0.005 in utility units: 0.005 * 100 * 2 * 10000
AcceptanceThreshold == (5 * BenefitScale * ValueScale * PowScale) \div 1000
\* communication threshold 0.2 and strengths, in tenths
CommunicationThreshold == 2
WorkInitialHours == 40

Dims == {"community", "tradition", "growth", "civic", "status", "leisure", "wealth"}

PracticeTypes ==
  {"work", "church", "club", "political_org", "education", "community_center"}

NoValues == [d \in Dims |-> 0]

(***************************************************************************)
(* _create_practice_profiles: benefits per hour in hundredths.             *)
(***************************************************************************)
value_benefits_per_hour(ptype) ==
  CASE ptype = "work" ->
         [community |-> 1, tradition |-> 0, growth |-> 2, civic |-> 1,
          status |-> 3, leisure |-> -5, wealth |-> 0]
    [] ptype = "church" ->
         [community |-> 15, tradition |-> 12, growth |-> 5, civic |-> 6,
          status |-> 4, leisure |-> 0, wealth |-> 0]
    [] ptype = "club" ->
         [community |-> 10, tradition |-> 2, growth |-> 8, civic |-> 3,
          status |-> 6, leisure |-> 5, wealth |-> 0]
    [] ptype = "political_org" ->
         [community |-> 7, tradition |-> 3, growth |-> 6, civic |-> 15,
          status |-> 9, leisure |-> 0, wealth |-> 0]
    [] ptype = "education" ->
         [community |-> 5, tradition |-> 4, growth |-> 15, civic |-> 5,
          status |-> 10, leisure |-> 0, wealth |-> 0]
    [] ptype = "community_center" ->
         [community |-> 12, tradition |-> 8, growth |-> 4, civic |-> 2,
          status |-> 2, leisure |-> 8, wealth |-> 0]

(***************************************************************************)
(* hours ** (1.0 / dim_factor) for hours = 0..61, rounded to 1/PowScale.   *)
(* Exponents 1/1.5 (work), 1/1.3 (church), 1/1.4 (club),                   *)
(* 1/1.2 (political_org, community_center), 1/1.1 (education).             *)
(***************************************************************************)
PowWork ==
  <<0, 10000, 15874, 20801, 25198, 29240, 33019, 36593, 40000, 43267, 46416,
    49461, 52415, 55288, 58088, 60822, 63496, 66115, 68683, 71204, 73681,
    76117, 78514, 80876, 83203, 85499, 87764, 90000, 92209, 94391, 96549,
    98683, 100794, 102883, 104951, 106999, 109027, 111037, 113029, 115003,
    116961, 118902, 120828, 122738, 124634, 126515, 128382, 130236, 132077,
    133905, 135721, 137525, 139316, 141097, 142866, 144624, 146372, 148110,
    149837, 151554, 153262, 154960>>

PowChurch ==
  <<0, 10000, 17044, 23282, 29048, 34488, 39681, 44676, 49509, 54204, 58780,
    63252, 67630, 71925, 76144, 80294, 84381, 88410, 92383, 96307, 100183,
    104014, 107803, 111553, 115266, 118943, 122586, 126197, 129777, 133328,
    136851, 140346, 143816, 147261, 150682, 154079, 157455, 160809, 164141,
    167454, 170747, 174022, 177277, 180515, 183736, 186940, 190127, 193299,
    196455, 199596, 202722, 205833, 208931, 212015, 215085, 218143, 221187,
    224219, 227239, 230247, 233243, 236228>>

PowClub ==
  <<0, 10000, 16407, 21918, 26918, 31569, 35960, 40146, 44164, 48040, 51795,
    55444, 58999, 62470, 65866, 69193, 72458, 75664, 78818, 81921, 84978,
    87992, 90965, 93899, 96798, 99662, 102493, 105294, 108065, 110808, 113524,
    116214, 118880, 121521, 124141, 126738, 129314, 131869, 134405, 136922,
    139421, 141902, 144366, 146813, 149243, 151658, 154058, 156443, 158813,
    161170, 163512, 165841, 168158, 170461, 172752, 175031, 177299, 179555,
    181799, 184032, 186255, 188467>>

PowCivic ==
  <<0, 10000, 17818, 24980, 31748, 38236, 44510, 50611, 56569, 62403, 68129,
    73761, 79308, 84779, 90179, 95516, 100794, 106017, 111189, 116313, 121392,
    126430, 131427, 136387, 141311, 146201, 151058, 155885, 160681, 165449,
    170190, 174905, 179594, 184259, 188900, 193519, 198116, 202691, 207246,
    211781, 216297, 220794, 225272, 229733, 234177, 238604, 243014, 247409,
    251788, 256151, 260500, 264835, 269155, 273462, 277755, 282035, 286301,
    290555, 294797, 299027, 303244, 307450>>

PowEducation ==
  <<0, 10000, 18779, 27149, 35264, 43194, 50981, 58650, 66220, 73704, 81113,
    88455, 95736, 102962, 110137, 117266, 124353, 131398, 138407, 145380,
    152319, 159227, 166106, 172956, 179778, 186575, 193348, 200097, 206823,
    213527, 220210, 226873, 233517, 240141, 246748, 253337, 259908, 266464,
    273003, 279526, 286034, 292528, 299007, 305472, 311923, 318361, 324787,
    331199, 337599, 343987, 350363, 356727, 363081, 369423, 375754, 382074,
    388384, 394684, 400974, 407254, 413524, 419785>>

\* effective_hours = hours ** (1.0 / dim_factor), in 1/PowScale
effective_hours(ptype, hours) ==
  CASE ptype = "work" -> PowWork[hours + 1]
    [] ptype = "church" -> PowChurch[hours + 1]
    [] ptype = "club" -> PowClub[hours + 1]
    [] ptype = "political_org" -> PowCivic[hours + 1]
    [] ptype = "education" -> PowEducation[hours + 1]
    [] ptype = "community_center" -> PowCivic[hours + 1]

(***************************************************************************)
(* calculate_institution_utility(agent, inst_name, hours), on the agent's  *)
(* value vector and the institution record.                                *)
(***************************************************************************)
calculate_institution_utility(values, inst, hours) ==
  IF hours <= 0 THEN 0
  ELSE
    LET b == value_benefits_per_hour(inst.practice_type)
        e == effective_hours(inst.practice_type, hours)
        utility ==
            b.community * values.community * e + b.tradition * values.tradition * e
          + b.growth * values.growth * e + b.civic * values.civic * e
          + b.status * values.status * e + b.leisure * values.leisure * e
          + b.wealth * values.wealth * e
    IN IF inst.practice_type = "work"
       THEN utility + hours * inst.money_income_per_hour * values.wealth * PowScale
       ELSE utility - hours * inst.money_cost_per_hour * values.wealth * PowScale

calculate_marginal_utility(values, inst, current_hours) ==
  calculate_institution_utility(values, inst, current_hours + 1)
    - calculate_institution_utility(values, inst, current_hours)

\* max_hours.get(inst.practice_type, 50)
max_hours(ptype) ==
  CASE ptype = "work" -> 60
    [] ptype = "church" -> 20
    [] ptype = "club" -> 15
    [] ptype = "political_org" -> 30
    [] ptype = "education" -> 40
    [] ptype = "community_center" -> 50
    [] OTHER -> 50

(***************************************************************************)
(* Small helpers.                                                          *)
(***************************************************************************)
\* an empty dict
EmptyAllocation == [k \in {} |-> 0]

\* dict.get(key, default)
Get(f, key, default) == IF key \in DOMAIN f THEN f[key] ELSE default

RECURSIVE SumOver(_, _)
\* sum(f[x] for x in S)
SumOver(f, S) ==
  IF S = {} THEN 0
  ELSE LET x == CHOOSE y \in S : TRUE IN f[x] + SumOver(f, S \ {x})

\* sum(self.time_allocation.values())
get_total_time_allocated(agent) ==
  SumOver(agent.time_allocation, DOMAIN agent.time_allocation)

(***************************************************************************)
(* Inputs of the constructor: institution configurations and the random    *)
(* draws of one run, collected in scenarios.  Positions are points of the  *)
(* unit square in tenths; agent values in 1/ValueScale.                    *)
(***************************************************************************)
Communal == [NoValues EXCEPT !.community = 2, !.tradition = 1]
Striver == [NoValues EXCEPT !.status = 2, !.wealth = 2, !.growth = 1]
Scholar == [NoValues EXCEPT !.growth = 2]
Idler == [NoValues EXCEPT !.leisure = 2]

Config(name, type, size, culture, cost, income) ==
  [name |-> name, type |-> type, size |-> size, culture |-> culture,
   money_cost |-> cost, money_income |-> income]

Draw(position, values, money, strength) ==
  [position |-> position, values |-> values, money_budget |-> money,
   communication_strength |-> strength]

Parish ==
  [institutions |->
     << Config(<<"StMary">>, "church", 2, [NoValues EXCEPT !.community = 1], 2, 0),
        Config(<<"Chess">>, "club", 1, [NoValues EXCEPT !.community = 1], 5, 0) >>,
   inst_position |-> << <<3, 0>>, <<0, 0>> >>,
   draws |-> << Draw(<<2, 0>>, Communal, 500, 5),
                Draw(<<5, 0>>, Communal, 1500, 9),
                Draw(<<9, 9>>, Communal, 1000, 7) >>,
   awareness_radius |-> 3,
   reallocation_frequency |-> 1]

Campus ==
  [institutions |->
     << Config(<<"Acme">>, "work", 2, [NoValues EXCEPT !.status = 1], 0, 25),
        Config(<<"College">>, "education", 2, [NoValues EXCEPT !.growth = 1], 20, 0) >>,
   inst_position |-> << <<10, 10>>, <<0, 0>> >>,
   draws |-> << Draw(<<0, 0>>, Scholar, 500, 5),
                Draw(<<10, 10>>, Striver, 1500, 9),
                Draw(<<0, 1>>, Striver, 1000, 7) >>,
   awareness_radius |-> 3,
   reallocation_frequency |-> 2]

CompanyTown ==
  [institutions |->
     << Config(<<"W1">>, "work", 1, [NoValues EXCEPT !.status = 1], 0, 25),
        Config(<<"W2">>, "work", 1, [NoValues EXCEPT !.status = 1], 0, 24),
        Config(<<"W3">>, "work", 1, [NoValues EXCEPT !.status = 1], 0, 23),
        Config(<<"W4">>, "work", 1, [NoValues EXCEPT !.status = 1, !.leisure = 1], 0, 22),
        Config(<<"W5">>, "work", 2, [NoValues EXCEPT !.status = 1, !.leisure = 1], 0, 21) >>,
   inst_position |-> << <<0, 0>>, <<0, 0>>, <<0, 0>>, <<0, 0>>, <<0, 0>> >>,
   draws |-> << Draw(<<0, 0>>, Striver, 500, 5),
                Draw(<<1, 0>>, Idler, 1500, 9),
                Draw(<<10, 9>>, Idler, 1000, 7) >>,
   awareness_radius |-> 3,
   reallocation_frequency |-> 2]

\* an institution with capacity 0, in reach of every agent
Closed ==
  [institutions |->
     << Config(<<"Forum">>, "political_org", 0, [NoValues EXCEPT !.community = 1], 0, 0) >>,
   inst_position |-> << <<0, 0>> >>,
   draws |-> << Draw(<<0, 0>>, Communal, 500, 5),
                Draw(<<1, 0>>, Communal, 1500, 9),
                Draw(<<0, 1>>, Communal, 1000, 7) >>,
   awareness_radius |-> 3,
   reallocation_frequency |-> 1]

\* a work institution that charges its members
Guild ==
  [institutions |->
     << Config(<<"Masons">>, "work", 2, [NoValues EXCEPT !.status = 1], 10, 0) >>,
   inst_position |-> << <<0, 0>> >>,
   draws |-> << Draw(<<0, 0>>, Striver, 500, 5),
                Draw(<<1, 0>>, Striver, 1500, 9),
                Draw(<<0, 1>>, Striver, 1000, 7) >>,
   awareness_radius |-> 3,
   reallocation_frequency |-> 1]

Scenarios == {Parish, Campus, CompanyTown, Closed, Guild}

\* network_density: 0.0 gives the empty graph, 1.0 the complete graph
Densities == {0, 1}

\* the values sampled for the initial hours of a practice type: 40 for work,
\* np.random.uniform(low, high) for the others
InitialHours(ptype) ==
  CASE ptype = "work" -> <<WorkInitialHours>>
    [] ptype = "church" -> <<3, 7>>
    [] ptype = "club" -> <<2>>
    [] ptype = "education" -> <<10>>
    [] OTHER -> <<5>>

\* a random draw for one agent and institution: 0 when np.random.random() < 0.3
\* fails, else the index of the sampled initial hours
RandomDraws == {0} \cup UNION {DOMAIN InitialHours(t) : t \in PracticeTypes}

(***************************************************************************)
(* State.                                                                  *)
(***************************************************************************)
VARIABLES
  n_agents,                \* self.n_agents
  awareness_radius,        \* self.awareness_radius
  reallocation_frequency,  \* self.reallocation_frequency
  agents,                  \* self.agents: id -> Agent
  institutions,            \* self.institutions: registry key -> Institution
  social_network,          \* self.social_network: edges and their weights
  history,                 \* self.history
  timestep,                \* self.timestep
  pc,                      \* position: idle, loop, opt, update, raised
  pending,                 \* agents of the permutation not yet processed
  cur,                     \* the agent being processed
  allocation,              \* optimize_allocation: allocation
  time_remaining,          \* optimize_allocation: time_remaining
  iteration,               \* optimize_allocation: iterations of the for loop done
  new_allocation,          \* step: new_allocation
  weight,                  \* _rebuild_network_with_institutions: weight per pair
  calls                    \* the number of calls of step made so far

vars ==
  << n_agents, awareness_radius, reallocation_frequency, agents, institutions,
     social_network, history, timestep, pc, pending, cur, allocation,
     time_remaining, iteration, new_allocation, weight, calls >>

AgentIds == 0 .. (n_agents - 1)

(***************************************************************************)
(* _create_institutions_from_config.                                       *)
(***************************************************************************)
\* inst_name = f"{config['type']}_{config['name']}"
inst_name(config) == <<config.type>> \o config.name

create_institutions_from_config(configs, positions) ==
  LET keys == {inst_name(configs[i]) : i \in DOMAIN configs}
      \* a later configuration with the same key replaces an earlier one
      last(k) == CHOOSE i \in DOMAIN configs :
                   /\ inst_name(configs[i]) = k
                   /\ \A j \in DOMAIN configs : inst_name(configs[j]) = k => j <= i
  IN [k \in keys |->
        [name |-> configs[last(k)].name,
         practice_type |-> configs[last(k)].type,
         size |-> configs[last(k)].size,
         members |-> {},
         culture |-> configs[last(k)].culture,
         money_cost_per_hour |-> configs[last(k)].money_cost,
         money_income_per_hour |-> configs[last(k)].money_income,
         position |-> positions[last(k)]]]

(***************************************************************************)
(* Agent.__init__ and the agent loop of CulturalDynamicsModel.__init__.    *)
(***************************************************************************)
NewAgent(draw) ==
  [position |-> draw.position,
   values |-> draw.values,
   time_budget |-> TimeBudget,
   money_budget |-> draw.money_budget,
   time_allocation |-> EmptyAllocation,
   institutions |-> {},
   aware_of |-> {},
   communication_strength |-> draw.communication_strength,
   timesteps_since_change |-> InitialTimestepsSinceChange]

DrawOf(scn, i) == scn.draws[IF i + 1 < Len(scn.draws) THEN i + 1 ELSE Len(scn.draws)]

(***************************************************************************)
(* _create_initial_network: nx.erdos_renyi_graph(n_agents, density).       *)
(***************************************************************************)
Pairs(n) == {{i, j} : i \in 0 .. (n - 1), j \in 0 .. (n - 1)} \ {{i} : i \in 0 .. (n - 1)}

create_initial_network(n, density) ==
  [edges |-> IF density >= 1 THEN Pairs(n) ELSE {}, weight |-> EmptyAllocation]

neighbors(network, a) == {b \in AgentIds : {a, b} \in network.edges /\ b # a}

(***************************************************************************)
(* _broadcast_institution_awareness.                                       *)
(***************************************************************************)
\* sqrt(dx**2 + dy**2) <= radius
WithinRadius(p, q, radius) ==
  /\ radius >= 0
  /\ (p[1] - q[1]) * (p[1] - q[1]) + (p[2] - q[2]) * (p[2] - q[2]) <= radius * radius

broadcast_institution_awareness(ags, insts, radius) ==
  [a \in DOMAIN ags |->
     [ags[a] EXCEPT !.aware_of =
        @ \cup {k \in DOMAIN insts : WithinRadius(ags[a].position, insts[k].position, radius)}]]

(***************************************************************************)
(* _assign_initial_memberships.  coin[<<a, k>>] is the outcome of          *)
(* np.random.random() < 0.3 and hours[<<a, k>>] the sampled initial hours  *)
(* for agent a at institution k.                                           *)
(***************************************************************************)
\* (mutant) every institution fits every agent
FitOfAnyone(inst, agent) == 1

\* fit = sum(inst.culture.get(d, 0) * agent.values[d] for d in agent.values)
Fit(inst, agent) ==
    inst.culture.community * agent.values.community
  + inst.culture.tradition * agent.values.tradition
  + inst.culture.growth * agent.values.growth
  + inst.culture.civic * agent.values.civic
  + inst.culture.status * agent.values.status
  + inst.culture.leisure * agent.values.leisure
  + inst.culture.wealth * agent.values.wealth

\* (mutant) the capacity test off by one
HasRoomOffByOne(members, size) == Cardinality(members) <= size

\* len(inst.members) < inst.size
HasRoom(members, size) == Cardinality(members) < size

RECURSIVE InitialMembers(_, _, _, _, _)
\* the members of institution k once the agents 0 .. upto-1 have been visited
InitialMembers(ags, insts, coin, k, upto) ==
  IF upto = 0 THEN {}
  ELSE LET before == InitialMembers(ags, insts, coin, k, upto - 1)
           a == upto - 1
       IN IF /\ k \in ags[a].aware_of
             /\ Fit(insts[k], ags[a]) > 0
             /\ coin[<<a, k>>]
             /\ HasRoom(before, insts[k].size)
          THEN before \cup {a}
          ELSE before

Eligible(ags, insts) ==
  {p \in (DOMAIN ags) \X (DOMAIN insts) :
     p[2] \in ags[p[1]].aware_of /\ Fit(insts[p[2]], ags[p[1]]) > 0}

assign_initial_memberships_insts(ags, insts, coin) ==
  [k \in DOMAIN insts |->
     [insts[k] EXCEPT !.members = InitialMembers(ags, insts, coin, k, Cardinality(DOMAIN ags))]]

assign_initial_memberships_agents(ags, insts1, hours) ==
  [a \in DOMAIN ags |->
     LET joined == {k \in DOMAIN insts1 : a \in insts1[k].members}
     IN [ags[a] EXCEPT !.institutions = joined,
                       !.time_allocation = [k \in joined |-> hours[<<a, k>>]]]]

(***************************************************************************)
(* _rebuild_network_with_institutions.  Weights in half hours.             *)
(***************************************************************************)
\* 2 * weight for one pair of members of one institution:
\* time_i + time_j, each read with time_allocation.get(inst.name, 0)
PairWeight(ags, inst, pair) ==
  LET i == CHOOSE x \in pair : TRUE
      j == CHOOSE x \in pair : x # i
  IN Get(ags[i].time_allocation, inst.name, 0) + Get(ags[j].time_allocation, inst.name, 0)

MemberPairs(inst) == {{i, j} : i \in inst.members, j \in inst.members} \ {{i} : i \in inst.members}

\* the weight computed for every institution and pair of its members
RebuildWeights(ags, insts) ==
  LET dom == {p \in (DOMAIN insts) \X (UNION {MemberPairs(insts[k]) : k \in DOMAIN insts}) :
                p[2] \in MemberPairs(insts[p[1]])}
  IN [p \in dom |-> PairWeight(ags, insts[p[1]], p[2])]

\* (mutant) the graph built anew from the co-memberships
rebuild_network_from_scratch(network, ags, insts) ==
  LET w == RebuildWeights(ags, insts)
      touched == {p[2] : p \in DOMAIN w}
  IN [edges |-> touched,
      weight |-> [e \in touched |-> SumOver(w, {p \in DOMAIN w : p[2] = e})]]

rebuild_network_with_institutions(network, ags, insts) ==
  LET w == RebuildWeights(ags, insts)
      touched == {p[2] : p \in DOMAIN w}
      added(e) == SumOver(w, {p \in DOMAIN w : p[2] = e})
  IN [edges |-> network.edges \cup touched,
      weight |-> [e \in (DOMAIN network.weight) \cup touched |->
                    IF e \in touched
                    THEN Get(network.weight, e, 0) + added(e)
                    ELSE network.weight[e]]]

(***************************************************************************)
(* _record_state.                                                          *)
(***************************************************************************)
HoursOfType(agent, insts, ptype) ==
  SumOver(agent.time_allocation,
          {k \in DOMAIN agent.time_allocation :
             k \in DOMAIN insts /\ insts[k].practice_type = ptype})

total_hours(ags, insts, ptype) ==
  SumOver([a \in DOMAIN ags |-> HoursOfType(ags[a], insts, ptype)], DOMAIN ags)

participants(ags, insts, ptype) ==
  Cardinality({a \in DOMAIN ags :
                 \E k \in DOMAIN ags[a].time_allocation :
                    k \in DOMAIN insts /\ insts[k].practice_type = ptype})

\* x / self.n_agents
Ratio(x, n) == [num |-> x, den |-> n]

\* (mutant) a practice type without participants gets no entry
record_state_participated_only(hist, ags, insts, n, ts) ==
  [timestep |-> Append(hist.timestep, ts),
   avg_hours |-> [p \in PracticeTypes |->
                    IF participants(ags, insts, p) = 0 THEN hist.avg_hours[p]
                    ELSE Append(hist.avg_hours[p], Ratio(total_hours(ags, insts, p), n))],
   participation_rate |-> [p \in PracticeTypes |->
                    IF participants(ags, insts, p) = 0 THEN hist.participation_rate[p]
                    ELSE Append(hist.participation_rate[p],
                                Ratio(participants(ags, insts, p), n))]]

record_state(hist, ags, insts, n, ts) ==
  [timestep |-> Append(hist.timestep, ts),
   avg_hours |-> [p \in PracticeTypes |->
                    Append(hist.avg_hours[p], Ratio(total_hours(ags, insts, p), n))],
   participation_rate |-> [p \in PracticeTypes |->
                    Append(hist.participation_rate[p], Ratio(participants(ags, insts, p), n))]]

EmptyHistory ==
  [timestep |-> << >>,
   avg_hours |-> [p \in PracticeTypes |-> << >>],
   participation_rate |-> [p \in PracticeTypes |-> << >>]]

(***************************************************************************)
(* CulturalDynamicsModel.__init__: the state after construction.  With     *)
(* n_agents = 0 the first division in _record_state raises, after the      *)
(* timestep entry has been appended.                                       *)
(***************************************************************************)
NoAgent == -1

\* (mutant) the division by the agent count never raises
DivisionNeverRaises(n) == FALSE

\* total_hours / self.n_agents raises ZeroDivisionError
DivisionRaises(n) == n = 0

Constructed(scn, n, density, coin, hours) ==
  LET ags0 == [a \in 0 .. (n - 1) |-> NewAgent(DrawOf(scn, a))]
      insts0 == create_institutions_from_config(scn.institutions, scn.inst_position)
      net0 == create_initial_network(n, density)
      ags1 == broadcast_institution_awareness(ags0, insts0, scn.awareness_radius)
  IN /\ n_agents = n
     /\ awareness_radius = scn.awareness_radius
     /\ reallocation_frequency = scn.reallocation_frequency
     /\ institutions = assign_initial_memberships_insts(ags1, insts0, coin)
     /\ agents = assign_initial_memberships_agents(ags1, institutions, hours)
     /\ social_network = rebuild_network_with_institutions(net0, agents, institutions)
     /\ weight = RebuildWeights(agents, institutions)
     /\ timestep = 0
     /\ history = IF DivisionRaises(n)
                  THEN [EmptyHistory EXCEPT !.timestep = <<0>>]
                  ELSE record_state(EmptyHistory, agents, institutions, n, 0)
     /\ pc = IF DivisionRaises(n) THEN "raised" ELSE "idle"
     /\ pending = {}
     /\ cur = NoAgent
     /\ allocation = EmptyAllocation
     /\ time_remaining = 0
     /\ iteration = 0
     /\ new_allocation = EmptyAllocation
     /\ calls = 0

Init ==
  \E scn \in Scenarios, n \in 0 .. MaxAgents, density \in Densities :
    LET insts0 == create_institutions_from_config(scn.institutions, scn.inst_position)
        ags1 == broadcast_institution_awareness(
                  [a \in 0 .. (n - 1) |-> NewAgent(DrawOf(scn, a))], insts0,
                  scn.awareness_radius)
        el == Eligible(ags1, insts0)
    IN \E draw \in {d \in [el -> RandomDraws] :
                       \A p \in el : d[p] <= Len(InitialHours(insts0[p[2]].practice_type))} :
         /\ Constructed(scn, n, density,
                        [p \in el |-> draw[p] > 0],
                        [p \in el |-> InitialHours(insts0[p[2]].practice_type)[
                                        IF draw[p] > 0 THEN draw[p] ELSE 1]])

(***************************************************************************)
(* update_awareness.                                                       *)
(***************************************************************************)
\* (mutant) only a strength of 0.8 or more communicates
CommunicatesStrongly(neighbor) == neighbor.communication_strength >= 8

\* neighbor.communication_strength >= 0.2
Communicates(neighbor) == neighbor.communication_strength >= CommunicationThreshold

\* (mutant) aware_of assigned from the neighbors instead of updated
update_awareness_overwrite(ags, network, a) ==
  UNION {ags[b].institutions : b \in {x \in neighbors(network, a) : Communicates(ags[x])}}

update_awareness(ags, network, a) ==
  ags[a].aware_of \cup
    UNION {ags[b].institutions : b \in {x \in neighbors(network, a) : Communicates(ags[x])}}

(***************************************************************************)
(* optimize_allocation: one iteration of the greedy loop.                  *)
(***************************************************************************)
\* (mutant) the cap test off by one
CapReachedOffByOne(inst, current_hours) == current_hours > max_hours(inst.practice_type)

\* current_hours >= max_hrs
CapReached(inst, current_hours) == current_hours >= max_hours(inst.practice_type)

\* balance = agent.money_budget + total_income - total_costs
Balance(agent, insts, alloc) ==
  LET known == {i \in DOMAIN alloc : i \in DOMAIN insts}
      total_income == SumOver([i \in known |-> alloc[i] * insts[i].money_income_per_hour], known)
      total_costs == SumOver([i \in known |-> alloc[i] * insts[i].money_cost_per_hour], known)
  IN agent.money_budget + total_income - total_costs

\* (mutant) the balance tested without the cost of the next hour
UnaffordableWhenOverdrawn(agent, insts, alloc, inst) ==
  /\ inst.practice_type # "work"
  /\ Balance(agent, insts, alloc) < 0

\* the affordability check
Unaffordable(agent, insts, alloc, inst) ==
  /\ inst.practice_type # "work"
  /\ Balance(agent, insts, alloc) - inst.money_cost_per_hour < 0

marginal_utils(agent, insts, alloc) ==
  [k \in {x \in agent.aware_of : x \in DOMAIN insts} |->
     IF CapReached(insts[k], alloc[k]) THEN Infeasible
     ELSE IF Unaffordable(agent, insts, alloc, insts[k]) THEN Infeasible
     ELSE calculate_marginal_utility(agent.values, insts[k], alloc[k])]

MaxValue(f) == CHOOSE v \in {f[x] : x \in DOMAIN f} : \A x \in DOMAIN f : f[x] <= v

\* not marginal_utils or max(marginal_utils.values()) <= 0.005
NothingWorthwhile(mu) == DOMAIN mu = {} \/ MaxValue(mu) <= AcceptanceThreshold

\* (mutant) any institution above the threshold may be taken
AnyWorthwhileInst(mu) == {k \in DOMAIN mu : mu[k] > AcceptanceThreshold}

\* the candidates of max(marginal_utils, key=marginal_utils.get): the first
\* maximal key in the iteration order of the set aware_of, which is not fixed
BestInsts(mu) == {k \in DOMAIN mu : mu[k] = MaxValue(mu)}

\* the loop goes on: iterations left, time left, something worthwhile
LoopContinues(agent, insts, alloc, remaining, done) ==
  /\ done < agent.time_budget
  /\ remaining > 0
  /\ ~NothingWorthwhile(marginal_utils(agent, insts, alloc))

\* {i: h for i, h in allocation.items() if h >= 0.5}
Returned(alloc) == [i \in {x \in DOMAIN alloc : 2 * alloc[x] >= 1} |-> alloc[i]]

(***************************************************************************)
(* step, in its positions.                                                 *)
(*   idle   -> loop   : the permutation is drawn (StepBegin)               *)
(*   loop   -> loop   : an agent not due for reallocation (AgentSkip)      *)
(*   loop   -> opt    : an agent due calls optimize_allocation             *)
(*   opt    -> opt    : one allocating iteration (OptAllocate)             *)
(*   opt    -> update : the loop ends and the allocation is returned       *)
(*   update -> loop   : memberships and allocation replaced                *)
(*   loop   -> idle   : rebuild, record, timestep += 1 (StepEnd)           *)
(***************************************************************************)
StepBegin ==
  /\ pc = "idle"
  /\ timestep < MaxSteps
  /\ pc' = "loop"
  /\ pending' = AgentIds
  /\ calls' = calls + 1
  /\ UNCHANGED << n_agents, awareness_radius, reallocation_frequency, agents,
                  institutions, social_network, history, timestep, cur, allocation,
                  time_remaining, iteration, new_allocation, weight >>

\* agent.timesteps_since_change += 1; self.update_awareness(agent)
Visited(a) ==
  [agents EXCEPT ![a].timesteps_since_change = @ + 1,
                 ![a].aware_of = update_awareness(agents, social_network, a)]

\* (mutant) the agent waits one step more
DueOneStepLater(agent) == agent.timesteps_since_change > reallocation_frequency

\* agent.timesteps_since_change >= self.reallocation_frequency
Due(agent) == agent.timesteps_since_change >= reallocation_frequency

AgentSkip(a) ==
  /\ pc = "loop"
  /\ a \in pending
  /\ ~Due(Visited(a)[a])
  /\ agents' = Visited(a)
  /\ pending' = pending \ {a}
  /\ UNCHANGED << n_agents, awareness_radius, reallocation_frequency, institutions,
                  social_network, history, timestep, pc, cur, allocation,
                  time_remaining, iteration, new_allocation, weight, calls >>

AgentOptimize(a) ==
  /\ pc = "loop"
  /\ a \in pending
  /\ Due(Visited(a)[a])
  /\ agents' = Visited(a)
  /\ pc' = "opt"
  /\ cur' = a
  /\ allocation' = [k \in Visited(a)[a].aware_of |-> 0]
  /\ time_remaining' = Visited(a)[a].time_budget
  /\ iteration' = 0
  /\ UNCHANGED << n_agents, awareness_radius, reallocation_frequency, institutions,
                  social_network, history, timestep, pending, new_allocation, weight,
                  calls >>

OptAllocate ==
  /\ pc = "opt"
  /\ LoopContinues(agents[cur], institutions, allocation, time_remaining, iteration)
  /\ \E best_inst \in BestInsts(marginal_utils(agents[cur], institutions, allocation)) :
       allocation' = [allocation EXCEPT ![best_inst] = @ + 1]
  /\ time_remaining' = time_remaining - 1
  /\ iteration' = iteration + 1
  /\ UNCHANGED << n_agents, awareness_radius, reallocation_frequency, agents,
                  institutions, social_network, history, timestep, pc, pending, cur,
                  new_allocation, weight, calls >>

OptReturn ==
  /\ pc = "opt"
  /\ ~LoopContinues(agents[cur], institutions, allocation, time_remaining, iteration)
  /\ new_allocation' = Returned(allocation)
  /\ pc' = "update"
  /\ allocation' = EmptyAllocation
  /\ time_remaining' = 0
  /\ iteration' = 0
  /\ UNCHANGED << n_agents, awareness_radius, reallocation_frequency, agents,
                  institutions, social_network, history, timestep, pending, cur, weight,
                  calls >>

\* (mutant) the agent is never removed from the institutions it left
MembersAfterWithoutLeaving(inst, k, a, old_insts, new_insts) ==
  IF k \in new_insts \ old_insts /\ HasRoom(inst.members, inst.size)
  THEN inst.members \cup {a}
  ELSE inst.members

\* members after the agent has left old_insts - new_insts and tried to join
\* new_insts - old_insts
MembersAfter(inst, k, a, old_insts, new_insts) ==
  IF k \in old_insts \ new_insts THEN inst.members \ {a}
  ELSE IF k \in new_insts \ old_insts /\ HasRoom(inst.members, inst.size)
       THEN inst.members \cup {a}
       ELSE inst.members

\* (mutant) the memberships only ever extended
KeepOldMemberships(old_insts, new_insts) == old_insts \cup new_insts

\* agent.institutions = new_insts
NewMemberships(old_insts, new_insts) == new_insts

UpdateMembership ==
  /\ pc = "update"
  /\ LET old_insts == agents[cur].institutions
         new_insts == DOMAIN new_allocation
     IN /\ institutions' =
             [k \in DOMAIN institutions |->
                [institutions[k] EXCEPT
                   !.members = MembersAfter(institutions[k], k, cur, old_insts, new_insts)]]
        /\ agents' = [agents EXCEPT ![cur].time_allocation = new_allocation,
                                    ![cur].institutions = NewMemberships(old_insts, new_insts),
                                    ![cur].timesteps_since_change = 0]
  /\ pending' = pending \ {cur}
  /\ pc' = "loop"
  /\ cur' = NoAgent
  /\ new_allocation' = EmptyAllocation
  /\ UNCHANGED << n_agents, awareness_radius, reallocation_frequency, social_network,
                  history, timestep, allocation, time_remaining, iteration, weight,
                  calls >>

StepEnd ==
  /\ pc = "loop"
  /\ pending = {}
  /\ social_network' = rebuild_network_with_institutions(social_network, agents, institutions)
  /\ weight' = RebuildWeights(agents, institutions)
  /\ history' = record_state(history, agents, institutions, n_agents, timestep)
  /\ timestep' = timestep + 1
  /\ pc' = "idle"
  /\ UNCHANGED << n_agents, awareness_radius, reallocation_frequency, agents,
                  institutions, pending, cur, allocation, time_remaining, iteration,
                  new_allocation, calls >>

Next ==
  \/ StepBegin
  \/ \E a \in AgentIds : AgentSkip(a)
  \/ \E a \in AgentIds : AgentOptimize(a)
  \/ OptAllocate
  \/ OptReturn
  \/ UpdateMembership
  \/ StepEnd

Spec == Init /\ [][Next]_vars

(***************************************************************************)
(* optimize_allocation on its own: called for an agent whose values, money *)
(* and awareness are chosen freely, over the institutions of a scenario.   *)
(***************************************************************************)
ValueProfiles == {Communal, Striver, Scholar, Idler}

MoneyBudgets == {0, 10, 500}

OptInit ==
  \E scn \in Scenarios, values \in ValueProfiles, money \in MoneyBudgets :
    LET insts0 == create_institutions_from_config(scn.institutions, scn.inst_position)
    IN \E aware \in SUBSET (DOMAIN insts0) :
         /\ n_agents = 1
         /\ awareness_radius = scn.awareness_radius
         /\ reallocation_frequency = scn.reallocation_frequency
         /\ agents = [a \in {0} |->
                        [NewAgent(Draw(<<0, 0>>, values, money, 5)) EXCEPT !.aware_of = aware]]
         /\ institutions = insts0
         /\ social_network = create_initial_network(1, 0)
         /\ weight = RebuildWeights(agents, insts0)
         /\ timestep = 0
         /\ history = EmptyHistory
         /\ pc = "opt"
         /\ pending = {0}
         /\ cur = 0
         /\ allocation = [k \in aware |-> 0]
         /\ time_remaining = TimeBudget
         /\ iteration = 0
         /\ new_allocation = EmptyAllocation
         /\ calls = 0

OptNext == OptAllocate \/ OptReturn

OptSpec == OptInit /\ [][OptNext]_vars

(***************************************************************************)
(* Properties.                                                             *)
(***************************************************************************)
Constructed_ok == pc # "raised"

\* the agent has been through a reallocation in step
Reoptimized(agent) == agent.timesteps_since_change < InitialTimestepsSinceChange

\* C1: between operations (after construction and after each call of step),
\* for every agent the sum of the values of time_allocation is at most the time
\* budget 168.
C1_TimeBudgetRespected ==
  pc = "idle" =>
    \A a \in AgentIds : get_total_time_allocated(agents[a]) <= agents[a].time_budget

\* C2: for every institution, in every state, the number of agent ids in its
\* members set is at most its capacity (size).
C2_CapacityRespected ==
  \A k \in DOMAIN institutions :
    Cardinality(institutions[k].members) <= institutions[k].size

\* C2 witness: after a step, an institution is full and an agent that holds
\* hours for it is not among its members (its join found no room).
C2_Witness ==
  /\ pc = "idle"
  /\ calls >= 1
  /\ \E k \in DOMAIN institutions, a \in AgentIds :
       /\ Cardinality(institutions[k].members) = institutions[k].size
       /\ institutions[k].size >= 1
       /\ a \notin institutions[k].members
       /\ k \in DOMAIN agents[a].time_allocation

\* C3: aware_of never shrinks: across every step of the engine (each single
\* update_awareness included) every agent's aware_of after it contains its
\* aware_of before it.
C3_AwarenessNeverShrinks ==
  [][\A a \in AgentIds : agents[a].aware_of \subseteq agents'[a].aware_of]_vars

\* C3 witness: an agent is aware of an institution outside its awareness
\* radius, which it can only have learnt from a neighbor in update_awareness.
C3_Witness ==
  \E a \in AgentIds, k \in DOMAIN institutions :
    /\ k \in agents[a].aware_of
    /\ ~WithinRadius(agents[a].position, institutions[k].position, awareness_radius)

\* C4: for every agent, after construction and after every step, the membership
\* set (Agent.institutions) is a subset of aware_of and of the keys of
\* time_allocation.
C4_MembershipsWithinAwarenessAndAllocation ==
  \A a \in AgentIds :
    /\ agents[a].institutions \subseteq agents[a].aware_of
    /\ agents[a].institutions \subseteq DOMAIN agents[a].time_allocation

\* C4 witness: after a step, an agent that reallocated holds a membership, with
\* hours, at an institution outside its awareness radius (learnt from a
\* neighbor).
C4_Witness ==
  /\ pc = "idle"
  /\ \E a \in AgentIds :
       /\ Reoptimized(agents[a])
       /\ \E k \in agents[a].institutions :
            /\ ~WithinRadius(agents[a].position, institutions[k].position, awareness_radius)
            /\ agents[a].time_allocation[k] >= 1

\* C5: when a reallocating agent newly selects an institution whose member count
\* equals its capacity, the join fails: the agent is not added to the members of
\* the institution and the institution is not added to the agent's membership
\* set.
C5_RejectedJoinLeavesNoMembership ==
  [][pc = "update" =>
       \A k \in (DOMAIN new_allocation) \ agents[cur].institutions :
         (k \in DOMAIN institutions
            /\ Cardinality(institutions[k].members) = institutions[k].size)
         => (cur \notin institutions'[k].members /\ k \notin agents'[cur].institutions)]_vars

\* C6: after every rebuild, for every institution and every pair of its
\* members, the weight the rebuild computed for the pair is the average of the
\* two members' hours at that institution, time_allocation being read at the
\* institution's registry key (both sides doubled here).
C6_PairWeightIsAverageHours ==
  \A p \in DOMAIN weight :
    LET k == p[1]
        i == CHOOSE x \in p[2] : TRUE
        j == CHOOSE x \in p[2] : x # i
    IN (pc = "idle" /\ p[2] \in MemberPairs(institutions[k])) =>
         weight[p] = Get(agents[i].time_allocation, k, 0) + Get(agents[j].time_allocation, k, 0)

\* C7: in the allocation built and returned by optimize_allocation, and in the
\* time_allocation of every agent that has reallocated, the hours of an
\* institution never exceed the cap of its practice type.
C7_HoursWithinPracticeCap ==
  /\ \A k \in DOMAIN allocation :
       allocation[k] <= max_hours(institutions[k].practice_type)
  /\ \A k \in DOMAIN new_allocation :
       new_allocation[k] <= max_hours(institutions[k].practice_type)
  /\ \A a \in AgentIds :
       Reoptimized(agents[a]) =>
         \A k \in DOMAIN agents[a].time_allocation :
           agents[a].time_allocation[k] <= max_hours(institutions[k].practice_type)

\* C7 witness: an agent that has reallocated holds exactly the cap of hours at
\* an institution.
C7_Witness ==
  \E a \in AgentIds :
    /\ Reoptimized(agents[a])
    /\ \E k \in DOMAIN agents[a].time_allocation :
         agents[a].time_allocation[k] = max_hours(institutions[k].practice_type)

\* C8: in an iteration of optimize_allocation in which the projected cash
\* balance (money plus income minus cost of the hours allocated so far) is
\* smaller than the cost per hour of a non-work institution with positive cost,
\* that institution gets no hour; an agent with money 0 and no income in its
\* allocation is returned no hours at any such institution.
C8_AffordabilityGuard ==
  [][(pc = "opt" /\ pc' = "opt") =>
       \A k \in DOMAIN allocation :
         (/\ institutions[k].practice_type # "work"
          /\ institutions[k].money_cost_per_hour > 0
          /\ Balance(agents[cur], institutions, allocation)
               < institutions[k].money_cost_per_hour)
         => allocation'[k] = allocation[k]]_vars

\* C8 witness: optimize_allocation has returned for an agent with money 0 that
\* is aware of a non-work institution with positive cost whose first hour has a
\* marginal utility above the acceptance threshold, and the returned allocation
\* holds no hours for it.
C8_Witness ==
  /\ pc = "update"
  /\ agents[cur].money_budget = 0
  /\ \E k \in agents[cur].aware_of :
       /\ institutions[k].practice_type # "work"
       /\ institutions[k].money_cost_per_hour > 0
       /\ calculate_marginal_utility(agents[cur].values, institutions[k], 0)
            > AcceptanceThreshold
       /\ k \notin DOMAIN new_allocation

\* the series of the history
SeriesLengths ==
  {Len(history.timestep)}
    \cup {Len(history.avg_hours[p]) : p \in PracticeTypes}
    \cup {Len(history.participation_rate[p]) : p \in PracticeTypes}

\* C9: every call of step appends exactly one entry to every history series:
\* after N calls every series holds the entry of the construction and N more,
\* and while a call is running the entries of the calls before it.
C9_OneEntryPerStep ==
  Constructed_ok =>
    SeriesLengths = {IF pc = "idle" THEN 1 + calls ELSE calls}

\* C9 witness: two calls of step have returned.
C9_Witness ==
  pc = "idle" /\ calls = 2 /\ Len(history.timestep) = 3

Last(seq) == seq[Len(seq)]

\* C10: every history entry holds, per practice type, avg_hours = (hours of all
\* agents at institutions of the type) / agent count and participation_rate =
\* (agents with at least 1 hour at an institution of the type) / agent count;
\* participation_rate lies in [0,1] and avg_hours in [0,168].
C10_HistoryEntries ==
  (pc = "idle") =>
    \A p \in PracticeTypes :
      /\ Last(history.avg_hours[p]) = Ratio(total_hours(agents, institutions, p), n_agents)
      /\ Last(history.participation_rate[p]) =
           Ratio(Cardinality({a \in AgentIds :
                   \E k \in DOMAIN agents[a].time_allocation :
                      /\ institutions[k].practice_type = p
                      /\ agents[a].time_allocation[k] >= 1}), n_agents)
      /\ \A i \in DOMAIN history.avg_hours[p] :
           /\ 0 <= history.avg_hours[p][i].num
           /\ history.avg_hours[p][i].num <= TimeBudget * history.avg_hours[p][i].den
      /\ \A i \in DOMAIN history.participation_rate[p] :
           /\ 0 <= history.participation_rate[p][i].num
           /\ history.participation_rate[p][i].num <= history.participation_rate[p][i].den

\* the institutions that have members and capacity
Populated(insts) ==
  [k \in {x \in DOMAIN insts : insts[x].members # {} /\ insts[x].size > 0} |-> insts[k]]

\* C11: an institution with capacity 0 or without members contributes nothing
\* to the recorded aggregates: the entry recorded for a practice type counts the
\* hours and the participants of the institutions of the type that have members
\* and capacity, and of no other (recording has not raised).
C11_EmptyInstitutionsContributeZero ==
  (pc = "idle") =>
    \A p \in PracticeTypes :
      /\ Last(history.avg_hours[p]) =
           Ratio(total_hours(agents, Populated(institutions), p), n_agents)
      /\ Last(history.participation_rate[p]) =
           Ratio(participants(agents, Populated(institutions), p), n_agents)

\* C12: the construction with agent count 0 fails with an error: the model is
\* never usable (no operation runs on it) and none of its history series has a
\* complete entry; the construction with agent count >= 1 does not fail, and
\* every division by the agent count it recorded has a nonzero divisor.
C12_ZeroAgentsRejected ==
  /\ n_agents = 0 =>
       /\ pc = "raised"
       /\ calls = 0
       /\ \A p \in PracticeTypes :
            history.avg_hours[p] = << >> /\ history.participation_rate[p] = << >>
  /\ n_agents >= 1 =>
       /\ Constructed_ok
       /\ \A p \in PracticeTypes :
            /\ Len(history.avg_hours[p]) >= 1
            /\ \A i \in DOMAIN history.avg_hours[p] : history.avg_hours[p][i].den = n_agents
            /\ \A i \in DOMAIN history.participation_rate[p] :
                 history.participation_rate[p][i].den = n_agents

\* C12 witness: a construction with agent count 0 has raised.
C12_Witness ==
  n_agents = 0 /\ pc = "raised" /\ agents = << >> /\ DOMAIN institutions # {}

\* C13: diminishing returns: for every institution and every agent's value
\* vector, calculate_marginal_utility is non-increasing in the current hours
\* over the hours at which the optimizer evaluates it (below the cap of the
\* practice type): marginal(h + 1) <= marginal(h).
C13_DiminishingReturns ==
  \A a \in AgentIds, k \in DOMAIN institutions :
    \A h \in 0 .. (max_hours(institutions[k].practice_type) - 2) :
      calculate_marginal_utility(agents[a].values, institutions[k], h + 1)
        <= calculate_marginal_utility(agents[a].values, institutions[k], h)

\* C14: leaving is unconditional: when an agent that reoptimized has its
\* memberships updated, it is absent afterwards from the members of every
\* institution that was in its membership set and is not a key of its new
\* allocation, whatever the capacities and the order of the agents.
C14_LeavingIsUnconditional ==
  [][pc = "update" =>
       \A k \in agents[cur].institutions \ DOMAIN new_allocation :
         k \in DOMAIN institutions => cur \notin institutions'[k].members]_vars

\* C14 witness: every agent held work hours, hence a membership, at the
\* construction, and an agent that has reoptimized since holds no membership
\* and is in no institution's members.
C14_Witness ==
  /\ pc = "idle"
  /\ n_agents >= 2
  /\ history.participation_rate["work"][1].num = n_agents
  /\ \E a \in AgentIds :
       /\ Reoptimized(agents[a])
       /\ agents[a].institutions = {}
       /\ \A k \in DOMAIN institutions : a \notin institutions[k].members

\* C15: reoptimization cadence.  When step visits an agent its counter is
\* incremented by one, and the agent reoptimizes iff the incremented counter is
\* at least reallocation_frequency; the membership update that ends the
\* reoptimization sets the counter to 0.  An agent that is visited without
\* reoptimizing keeps its time_allocation and membership set, and no
\* institution's members change; outside its own visit and update nothing of
\* the agent changes, and its presence in a members set changes only in its own
\* update.  Hence, for a frequency f >= 1, after every call of step each counter
\* is (calls - 1) modulo f: the agent reoptimizes in the calls 1, 1 + f,
\* 1 + 2f, ..., exactly f calls apart.
C15_ReoptimizationCadence ==
  /\ [](( pc = "idle" /\ calls >= 1 /\ reallocation_frequency >= 1) =>
          \A a \in AgentIds :
            agents[a].timesteps_since_change = (calls - 1) % reallocation_frequency)
  /\ [][\A a \in AgentIds :
         LET visited == /\ pc = "loop"
                        /\ a \in pending
                        /\ (a \notin pending' \/ (pc' = "opt" /\ cur' = a))
             updated == pc = "update" /\ cur = a
             before == agents[a].timesteps_since_change
             after == agents'[a].timesteps_since_change
         IN /\ visited =>
                 /\ after = before + 1
                 /\ (pc' = "opt") <=> (after >= reallocation_frequency)
                 /\ agents'[a].time_allocation = agents[a].time_allocation
                 /\ agents'[a].institutions = agents[a].institutions
                 /\ institutions' = institutions
            /\ updated => after = 0
            /\ (~visited /\ ~updated) =>
                 /\ after = before
                 /\ agents'[a].time_allocation = agents[a].time_allocation
                 /\ agents'[a].institutions = agents[a].institutions
            /\ \A k \in DOMAIN institutions :
                 ((a \in institutions[k].members) # (a \in institutions'[k].members))
                   => updated]_vars

\* C15 witness: with frequency 2, three calls of step have returned and an
\* agent has just reoptimized for the second time (in the calls 1 and 3, having
\* been visited without reoptimizing in call 2).
C15_Witness ==
  /\ pc = "idle"
  /\ calls = 3
  /\ reallocation_frequency = 2
  /\ \E a \in AgentIds :
       /\ agents[a].timesteps_since_change = 0
       /\ DOMAIN agents[a].time_allocation # {}

\* C16: the greedy loop of optimize_allocation.  An iteration that allocates
\* gives exactly one hour to one aware institution, which is not marked
\* infeasible (its cap is not reached and it is affordable) and whose marginal
\* utility at its current hours is above the acceptance threshold 0.005 and at
\* least the (marked) marginal utility of every aware institution; when no
\* institution's marginal utility exceeds the threshold the loop stops; and the
\* hours allocated add up to the number of allocating iterations, in the loop
\* and in the allocation returned.
C16_GreedySelection ==
  /\ [](pc = "opt" => SumOver(allocation, DOMAIN allocation) = iteration)
  /\ [][pc = "opt" =>
         LET agent == agents[cur]
             marginal(j) ==
               calculate_marginal_utility(agent.values, institutions[j], allocation[j])
             infeasible(j) ==
               \/ allocation[j] >= max_hours(institutions[j].practice_type)
               \/ /\ institutions[j].practice_type # "work"
                  /\ Balance(agent, institutions, allocation)
                       - institutions[j].money_cost_per_hour < 0
             marked(j) == IF infeasible(j) THEN Infeasible ELSE marginal(j)
         IN /\ (pc' = "opt") =>
                 /\ iteration' = iteration + 1
                 /\ \E k \in agent.aware_of :
                      /\ allocation' = [allocation EXCEPT ![k] = @ + 1]
                      /\ ~infeasible(k)
                      /\ marginal(k) > AcceptanceThreshold
                      /\ \A j \in agent.aware_of : marked(j) <= marginal(k)
            /\ (\A j \in agent.aware_of : marked(j) <= AcceptanceThreshold) =>
                 pc' = "update"
            /\ (pc' = "update") =>
                 SumOver(new_allocation', DOMAIN new_allocation') = iteration]_vars

\* C16 witness: the loop is about to allocate a further hour while an aware
\* institution is marked infeasible because its cap is reached, and another
\* aware institution already holds hours.
C16_Witness ==
  /\ pc = "opt"
  /\ LoopContinues(agents[cur], institutions, allocation, time_remaining, iteration)
  /\ \E k \in DOMAIN allocation, j \in DOMAIN allocation :
       /\ k # j
       /\ allocation[k] = max_hours(institutions[k].practice_type)
       /\ allocation[j] >= 1
       /\ allocation[j] < max_hours(institutions[j].practice_type)

\* C17: awareness diffusion.  When step visits an agent, right after its
\* update_awareness its aware_of is what it was, together with the membership
\* set, as it is at that moment, of every agent adjacent to it in the social
\* graph left by the previous rebuild whose communication strength is at least
\* 0.2: the memberships a neighbor replaced earlier in the same pass are the
\* ones absorbed.
C17_AwarenessDiffusion ==
  [][\A a \in AgentIds :
       (/\ pc = "loop"
        /\ a \in pending
        /\ (a \notin pending' \/ (pc' = "opt" /\ cur' = a)))
       => LET talking == {b \in AgentIds \ {a} :
                            /\ {a, b} \in social_network.edges
                            /\ agents[b].communication_strength >= CommunicationThreshold}
          IN /\ \A b \in talking : agents[b].institutions \subseteq agents'[a].aware_of
             /\ agents'[a].aware_of =
                  agents[a].aware_of \cup UNION {agents[b].institutions : b \in talking}]_vars

\* C17 witness: in the first call of step an agent is aware of an institution
\* outside its awareness radius of a practice type in which nobody took part
\* at the construction: it absorbed a membership that a neighbor took up
\* earlier in the same pass.
C17_Witness ==
  /\ calls = 1
  /\ \E a \in AgentIds, k \in DOMAIN institutions :
       /\ k \in agents[a].aware_of
       /\ ~WithinRadius(agents[a].position, institutions[k].position, awareness_radius)
       /\ history.participation_rate[institutions[k].practice_type][1].num = 0

\* the dot product of a culture vector and a value vector
DotProduct(culture, values) == SumOver([d \in Dims |-> culture[d] * values[d]], Dims)

\* C18: after the construction, before any step, an agent is a member of an
\* institution (on either side of the membership) only if the institution is in
\* its aware_of and the dot product of the institution's culture and the
\* agent's values is > 0; every institution has between 0 and n_agents members,
\* all of them agents; every member has a time_allocation entry for the
\* institution.
C18_InitialMemberships ==
  (pc = "idle" /\ calls = 0) =>
    /\ \A a \in AgentIds, k \in DOMAIN institutions :
         (a \in institutions[k].members \/ k \in agents[a].institutions) =>
           /\ k \in agents[a].aware_of
           /\ DotProduct(institutions[k].culture, agents[a].values) > 0
           /\ k \in DOMAIN agents[a].time_allocation
    /\ \A k \in DOMAIN institutions :
         /\ institutions[k].members \subseteq AgentIds
         /\ Cardinality(institutions[k].members) >= 0
         /\ Cardinality(institutions[k].members) <= n_agents

\* C18 witness: a construction in which an institution has a member, an agent
\* aware of an institution that fits it is not its member, and an agent is
\* aware of an institution that does not fit it.
C18_Witness ==
  /\ pc = "idle"
  /\ calls = 0
  /\ \E a \in AgentIds, k \in DOMAIN institutions : a \in institutions[k].members
  /\ \E a \in AgentIds, k \in DOMAIN institutions :
       /\ k \in agents[a].aware_of
       /\ DotProduct(institutions[k].culture, agents[a].values) > 0
       /\ a \notin institutions[k].members
  /\ \E a \in AgentIds, k \in DOMAIN institutions :
       /\ k \in agents[a].aware_of
       /\ DotProduct(institutions[k].culture, agents[a].values) = 0

\* C19: a rebuild only adds.  Across every step of the engine the nodes stay,
\* every edge stays and no edge's weight decreases; a rebuild gives every pair
\* of co-members an edge whose weight is the weight the edge had (0 when it had
\* none, or was not there) plus the weights computed for the pair, one per
\* institution the two share.
C19_RebuildOnlyAdds ==
  [][/\ n_agents' = n_agents
     /\ social_network.edges \subseteq social_network'.edges
     /\ \A e \in DOMAIN social_network.weight :
          /\ e \in DOMAIN social_network'.weight
          /\ social_network'.weight[e] >= social_network.weight[e]
     /\ (pc = "loop" /\ pc' = "idle") =>
          \A k \in DOMAIN institutions : \A e \in MemberPairs(institutions[k]) :
            LET shared == {j \in DOMAIN institutions : e \in MemberPairs(institutions[j])}
            IN /\ e \in social_network'.edges
               /\ social_network'.weight[e] =
                    Get(social_network.weight, e, 0)
                      + SumOver([j \in shared |-> PairWeight(agents, institutions[j], e)],
                                shared)]_vars

\* C19 witness: after a step, an edge that a rebuild gave a weight joins two
\* agents who are co-members of no institution any more.
C19_Witness ==
  /\ pc = "idle"
  /\ calls >= 1
  /\ \E e \in DOMAIN social_network.weight :
       /\ e \in social_network.edges
       /\ \A k \in DOMAIN institutions : ~(e \subseteq institutions[k].members)

\* C20: the two sides of a membership agree: after the construction and after
\* every call of step, an agent's id is in an institution's members if and only
\* if the institution is in the agent's membership set (Agent.institutions).
C20_MembershipSidesAgree ==
  (pc = "idle") =>
    \A a \in AgentIds, k \in DOMAIN institutions :
      (a \in institutions[k].members) <=> (k \in agents[a].institutions)

\* C21: a rejected join is retried: when the memberships of an agent that
\* reoptimized are updated, every institution of its new allocation that has
\* fewer members than its capacity at that moment has the agent among its
\* members afterwards, also when the institution was already in the agent's
\* membership set because of an earlier, rejected, join.
C21_RejectedJoinIsRetried ==
  [][pc = "update" =>
       \A k \in DOMAIN new_allocation :
         (k \in DOMAIN institutions
            /\ Cardinality(institutions[k].members) < institutions[k].size)
         => cur \in institutions'[k].members]_vars

\* C22: the history is indexed by tick: after the construction and after every
\* call of step, the values of history.timestep are strictly increasing, the
\* first of them (recorded at construction) is 0, and the tick counter equals
\* the number of calls of step made.
C22_HistoryIndexedByTick ==
  (pc = "idle") =>
    /\ history.timestep[1] = 0
    /\ timestep = calls
    /\ \A i \in DOMAIN history.timestep, j \in DOMAIN history.timestep :
         i < j => history.timestep[i] < history.timestep[j]

\* C23: the allocation returned by optimize_allocation for an agent whose
\* starting money is not negative keeps the projected cash balance non-negative:
\* money_budget plus the income minus the cost of the hours returned, over all
\* the institutions of the allocation (work institutions with a cost included),
\* is >= 0.
C23_ReturnedBalanceNonNegative ==
  (pc = "update" /\ agents[cur].money_budget >= 0) =>
    agents[cur].money_budget
      + SumOver([k \in DOMAIN new_allocation |->
                   new_allocation[k] * institutions[k].money_income_per_hour],
                DOMAIN new_allocation)
      - SumOver([k \in DOMAIN new_allocation |->
                   new_allocation[k] * institutions[k].money_cost_per_hour],
                DOMAIN new_allocation)
      >= 0

====
